---- MODULE Spec2Model ----
(***************************************************************************)
(* Model of shell-ai-ask: the Conversation manager (conversation.py) and   *)
(* the provider adapters (models.py).                                      *)
(*                                                                         *)
(* A text is a sequence of tokens (strings); "" is <<>> and + is \o.       *)
(* A message is a Python dict {"role", "content"}; the field ref records   *)
(* object identity: ref = "head" marks a list entry that is the very same  *)
(* dict object as messages[0] (add_message copies the reference of         *)
(* messages[0] into the new list), ref = "own" any other dict.             *)
(***************************************************************************)
EXTENDS Integers, Sequences, FiniteSets, TLC

VARIABLES
    max_history,    \* Conversation.max_history
    messages,       \* Conversation.messages
    family,         \* class of Conversation.model: "openai" (OpenAIModel, DeepSeekModel) or "qwen"
    pc,             \* position of send_message: "idle" (no call running), "pull"
                    \* (line 67, next fragment requested), "write" (line 68),
                    \* "accumulate" (line 70), "raised" (an exception left send_message),
                    \* "exited" (sys.exit(0) of the SIGINT handler ended the process)
    gen,            \* state of the generator object returned by generate(stream=True)
    status,         \* response.status_code of the turn's HTTP response (0: none yet)
    consumed,       \* lines handed out so far by response.iter_lines()
    chunk,          \* loop variable chunk of send_message
    response_text,  \* accumulator response_text of send_message
    stdout,         \* texts written to sys.stdout during the turn, in order
    written,        \* those of them written by send_message itself (line 68)
    fragments,      \* fragments yielded so far by the generator (history variable)
    returned,       \* value returned by the last send_message that returned
    request,        \* the dict data built by generate for the turn's request
    last_op,        \* the public method called last (history variable)
    last_arg,       \* its argument, as a message (history variable)
    before,         \* messages when that method was called (history variable)
    stored,         \* config.config["models"]: provider name -> model configuration
    stored0,        \* stored when get_model_instance was last called (history variable)
    environ,        \* os.environ, the variables get_model_instance may read
    provider,       \* argument model_name of the last get_model_instance call
    model,          \* what that call returned
    env_reads,      \* names of the environment variables read so far (history variable)
    authorization,  \* Authorization header of the last request the returned adapter built
    configured,     \* config.config["max_history"]
    response        \* the HTTP response generate(stream=False) received in this turn

factoryVars == <<stored, stored0, environ, provider, model, env_reads, authorization,
                 configured>>
convVars == <<max_history, family, factoryVars>>
turnVars == <<gen, status, consumed, chunk, response_text, stdout, written, fragments,
              returned, request, response>>
vars == <<max_history, messages, family, pc, gen, status, consumed, chunk,
          response_text, stdout, written, fragments, returned, request, last_op, last_arg,
          before, stored, stored0, environ, provider, model, env_reads, authorization,
          configured, response>>

\* ---------------------------------------------------------------- bounds
MaxHistory == 3
MaxLen == 4
MaxTurnLines == 2
MaxLines == 3
MaxEntries == 2

\* Conversation.__init__: max_history: int = 10
DefaultMaxHistory == 10
\* Config.default_config: "max_history": 10
DefaultConfigMaxHistory == 10

\* ---------------------------------------------------------------- data
Roles == {"system", "user", "assistant"}
Families == {"openai", "qwen"}
Contents == {<<"x">>, <<"y">>}

Message(role, content) == [role |-> role, content |-> content, ref |-> "own"]

\* Python s[-k:] for k >= 0: -0 is 0, so s[-0:] is the whole list.
NegSlice(s, k) ==
    IF k = 0 \/ k >= Len(s) THEN s ELSE SubSeq(s, Len(s) - k + 1, Len(s))

\* The entries of list s as they appear in a list that also holds s[1] in
\* front: the entry s[1], when kept, is the same object as the new head.
SharedWithHead(s, kept) ==
    IF Len(kept) = Len(s) /\ Len(s) > 0
    THEN <<[s[1] EXCEPT !.ref = "head"]>> \o Tail(s)
    ELSE kept

\* ---------------------------------------------------------------- Conversation
add_message_nopin(msgs, mh, role, content) ==
    LET appended == Append(msgs, Message(role, content))
    IN  IF Len(appended) > mh THEN NegSlice(appended, mh) ELSE appended

add_message_keep_oldest(msgs, mh, role, content) ==
    LET appended == Append(msgs, Message(role, content))
    IN  IF Len(appended) > mh THEN SubSeq(appended, 1, mh) ELSE appended

add_message(msgs, mh, role, content) ==
    LET appended == Append(msgs, Message(role, content))
    IN  IF Len(appended) > mh
        THEN IF appended[1].role = "system"
             THEN <<appended[1]>> \o SharedWithHead(appended, NegSlice(appended, mh - 1))
             ELSE NegSlice(appended, mh)
        ELSE appended

clear_history_all(msgs) == <<>>

clear_history(msgs) ==
    IF msgs # <<>> /\ msgs[1].role = "system" THEN <<msgs[1]>> ELSE <<>>

set_system_message(msgs, content) ==
    IF msgs # <<>> /\ msgs[1].role = "system"
    THEN [i \in 1..Len(msgs) |->
            IF i = 1 \/ msgs[i].ref = "head"
            THEN [msgs[i] EXCEPT !.content = content]
            ELSE msgs[i]]
    ELSE <<Message("system", content)>> \o msgs

\* ---------------------------------------------------------------- texts built by the adapters
\* f"API请求失败：{response.status_code} {response.text}"
StatusText(s) == CASE s = 200 -> "200" [] s = 201 -> "201" [] s = 404 -> "404" [] OTHER -> "500"
ApiFailedMsg(s, text) == <<"API request failed: ", StatusText(s), " ">> \o text
\* f"OpenAI API请求失败：{str(e)}" / f"通义千问API请求失败：{str(e)}"
RequestFailedMsg(fam, e) ==
    IF fam = "openai" THEN <<"OpenAI API request failed: ", e>>
    ELSE <<"Qwen API request failed: ", e>>
\* f"解析响应时出错：{e}"
ParseErrorMsg(e) == <<"parse error: ", e>>
\* print(x) writes x and a newline
Printed(text) == text \o <<"\n">>

\* ---------------------------------------------------------------- HTTP responses
\* A decoded JSON document, as far as the adapters look into it.
\*   kind: "invalid" (json.loads raises), "scalar" (a number), "object"
\*   has_choices, n_choices: key "choices" and the length of its list
\*   delta / message: choices[0] has that key; has_content, content: the key
\*   "content" inside it and its string
\*   output: key "output"; has_text, text: key "text" inside it and its string
NoJson == [kind |-> "invalid", has_choices |-> FALSE, n_choices |-> 0, delta |-> FALSE,
           message |-> FALSE, has_content |-> FALSE, content |-> <<>>,
           output |-> FALSE, has_text |-> FALSE, text |-> <<>>]
ScalarJson == [NoJson EXCEPT !.kind = "scalar"]
EmptyObject == [NoJson EXCEPT !.kind = "object"]
NoChoices == [EmptyObject EXCEPT !.has_choices = TRUE]
OneChoice == [NoChoices EXCEPT !.n_choices = 1]
DeltaJson(c) == [OneChoice EXCEPT !.delta = TRUE, !.has_content = TRUE, !.content = c]
MessageJson(c) == [OneChoice EXCEPT !.message = TRUE, !.has_content = TRUE, !.content = c]
OutputJson(t) == [EmptyObject EXCEPT !.output = TRUE, !.has_text = TRUE, !.text = t]

\* One element of response.iter_lines(): raw is "blank" (b''), "badutf8" (bytes
\* that are not UTF-8) or "text"; prefix: the text starts with 'data: ';
\* done: the rest of the text is '[DONE]'; json: the rest of the text decoded.
Line(raw, prefix, done, json) == [raw |-> raw, prefix |-> prefix, done |-> done, json |-> json]
BlankLine == Line("blank", FALSE, FALSE, NoJson)
BadUtf8Line == Line("badutf8", FALSE, FALSE, NoJson)
DoneLine == Line("text", TRUE, TRUE, NoJson)
BareDoneLine == Line("text", FALSE, TRUE, NoJson)
DataLine(json) == Line("text", TRUE, FALSE, json)
BareLine(json) == Line("text", FALSE, FALSE, json)

\* What one pass of the generator's loop body does with a line.
Continue(err) == [act |-> "continue", frag |-> <<>>, err |-> err]
Yield(frag) == [act |-> "yield", frag |-> frag, err |-> ""]
Break == [act |-> "break", frag |-> <<>>, err |-> ""]
Raise(err) == [act |-> "raise", frag |-> <<>>, err |-> err]

\* ---------------------------------------------------------------- OpenAIModel
openai_stream_line_nobreak(line) ==
    IF line.raw = "blank" THEN Continue("")
    ELSE IF line.raw = "badutf8" THEN Raise("UnicodeDecodeError")
    ELSE IF line.json.kind = "invalid" THEN Continue("JSONDecodeError")
    ELSE IF line.json.kind = "scalar" THEN Continue("TypeError")
    ELSE IF line.json.has_choices /\ line.json.n_choices > 0
              /\ line.json.delta /\ line.json.has_content /\ line.json.content # <<>>
         THEN Yield(line.json.content)
         ELSE Continue("")

openai_stream_line(line) ==
    IF line.raw = "blank" THEN Continue("")
    ELSE IF line.raw = "badutf8" THEN Raise("UnicodeDecodeError")
    ELSE IF line.done THEN Break
    ELSE IF line.json.kind = "invalid" THEN Continue("JSONDecodeError")
    ELSE IF line.json.kind = "scalar" THEN Continue("TypeError")
    ELSE IF line.json.has_choices /\ line.json.n_choices > 0
              /\ line.json.delta /\ line.json.has_content /\ line.json.content # <<>>
         THEN Yield(line.json.content)
         ELSE Continue("")

openai_non_stream_reply(resp) ==
    IF resp.status # 200 THEN ApiFailedMsg(resp.status, resp.text)
    ELSE IF resp.json.kind = "invalid" THEN ParseErrorMsg("JSONDecodeError")
    ELSE IF resp.json.kind = "scalar" THEN ParseErrorMsg("TypeError")
    ELSE IF resp.json.has_choices /\ resp.json.n_choices > 0
         THEN IF resp.json.message /\ resp.json.has_content
              THEN resp.json.content
              ELSE ParseErrorMsg("KeyError")
         ELSE <<>>

\* ---------------------------------------------------------------- QwenModel
qwen_stream_line_yields_empty(line) ==
    IF line.raw = "blank" THEN Continue("")
    ELSE IF line.raw = "badutf8" THEN Continue("UnicodeDecodeError")
    ELSE IF line.prefix \/ line.done \/ line.json.kind = "invalid" THEN Continue("JSONDecodeError")
    ELSE IF line.json.kind = "scalar" THEN Continue("AttributeError")
    ELSE Yield(line.json.text)

qwen_stream_line(line) ==
    IF line.raw = "blank" THEN Continue("")
    ELSE IF line.raw = "badutf8" THEN Continue("UnicodeDecodeError")
    ELSE IF line.prefix \/ line.done \/ line.json.kind = "invalid" THEN Continue("JSONDecodeError")
    ELSE IF line.json.kind = "scalar" THEN Continue("AttributeError")
    ELSE IF line.json.output /\ line.json.has_text /\ line.json.text # <<>>
         THEN Yield(line.json.text)
         ELSE Continue("")

qwen_non_stream_reply(resp) ==
    IF resp.status # 200 THEN ApiFailedMsg(resp.status, resp.text)
    ELSE IF resp.json.kind = "invalid" THEN ParseErrorMsg("JSONDecodeError")
    ELSE IF resp.json.kind = "scalar" THEN ParseErrorMsg("AttributeError")
    ELSE IF resp.json.output /\ resp.json.has_text THEN resp.json.text ELSE <<>>

\* ---------------------------------------------------------------- generate
stream_line(fam, line) ==
    IF fam = "openai" THEN openai_stream_line(line) ELSE qwen_stream_line(line)

\* generate(messages, stream=False): resp.failed says requests.post raised.
generate_non_stream(fam, resp) ==
    IF resp.failed THEN RequestFailedMsg(fam, "ConnectionError")
    ELSE IF fam = "openai" THEN openai_non_stream_reply(resp)
    ELSE qwen_non_stream_reply(resp)

\* What generate(messages, stream=False) prints on the way.
generate_non_stream_prints(fam, resp) ==
    IF resp.failed THEN <<Printed(RequestFailedMsg(fam, "ConnectionError"))>> ELSE <<>>

Response(failed, st, text, json) == [failed |-> failed, status |-> st, text |-> text, json |-> json]
\* No non-streamed response received in this turn.
NoResponse == Response(FALSE, 0, <<>>, NoJson)

\* ---------------------------------------------------------------- what the server may send
Fragments == {<<"Hel">>, <<"lo">>}
TurnStatuses == {404}
StreamStatuses == {201, 404, 500}
Bodies == {<<"oops">>}

\* Lines of a served stream, the well-formed ones in the wire format of the family.
ContentLine(fam, c) == IF fam = "openai" THEN DataLine(DeltaJson(c)) ELSE BareLine(OutputJson(c))
TurnLines(fam) ==
    {ContentLine(fam, c) : c \in Fragments} \cup {BareLine(NoJson)}
        \cup (IF fam = "openai" THEN {DoneLine} ELSE {})

\* Every kind of line either loop distinguishes.
StreamLines ==
    {ContentLine(fam, c) : fam \in Families, c \in Fragments}
        \cup {BlankLine, BadUtf8Line, DoneLine, BareDoneLine, BareLine(NoJson), DataLine(NoJson),
              DataLine(ScalarJson), BareLine(ScalarJson), DataLine(EmptyObject),
              BareLine(EmptyObject), DataLine(NoChoices), DataLine(OneChoice),
              DataLine(DeltaJson(<<>>)), BareLine(OutputJson(<<>>)),
              DataLine([OneChoice EXCEPT !.delta = TRUE]),
              BareLine([EmptyObject EXCEPT !.output = TRUE])}

ReplyJson(fam, c) == IF fam = "openai" THEN MessageJson(c) ELSE OutputJson(c)
Replies == {<<"Hel", "lo">>}
NonStreamResponses(fam) ==
    {Response(TRUE, 0, <<>>, NoJson)}
        \cup {Response(FALSE, s, b, NoJson) : s \in TurnStatuses, b \in Bodies}
        \cup {Response(FALSE, 200, <<>>, j) :
                j \in {ReplyJson(fam, c) : c \in Replies} \cup {NoJson, EmptyObject}}

\* ---------------------------------------------------------------- Conversation.send_message
NoneValue == [kind |-> "None", text |-> <<>>]
StrValue(text) == [kind |-> "str", text |-> text]
NoRequest == [messages |-> <<>>, stream |-> FALSE]
NoArg == Message("none", <<>>)
UserTexts == {<<"q">>}
SystemPrompts == {<<"x">>}

\* The caller is single-threaded and send_message is synchronous: the next call
\* is made when no call is running (main.py, the loop of lines 164-176).
LoopReady_reentrant == pc \in {"idle", "pull", "write", "accumulate"}

LoopReady == pc = "idle"

send_message_non_stream_unrecorded(msgs, mh, text, reply) ==
    add_message(msgs, mh, "user", text)

\* stream=False: lines 61 and 77-81, given the string generate returns.
send_message_non_stream(msgs, mh, text, reply) ==
    add_message(add_message(msgs, mh, "user", text), mh, "assistant", reply)

SendNonStream(responses) ==
    /\ LoopReady
    /\ Len(messages) <= MaxLen
    /\ \E text \in UserTexts, resp \in responses :
          LET reply == generate_non_stream(family, resp)
          IN  /\ messages' = send_message_non_stream(messages, max_history, text, reply)
              /\ response' = resp
              /\ request' = [messages |-> add_message(messages, max_history, "user", text),
                             stream |-> FALSE]
              /\ stdout' = generate_non_stream_prints(family, resp)
              /\ returned' = StrValue(reply)
              /\ status' = resp.status
              /\ last_arg' = Message("user", text)
    /\ last_op' = "send_message"
    /\ before' = messages
    /\ gen' = "none"
    /\ consumed' = <<>>
    /\ chunk' = <<>>
    /\ response_text' = <<>>
    /\ written' = <<>>
    /\ fragments' = <<>>
    /\ UNCHANGED <<convVars, pc>>

SendMessageNonStream == SendNonStream(NonStreamResponses(family))

\* stream=True: line 61, then the call of generate (lines 95-102), which only
\* creates the generator; nothing of _stream_generate has run yet.
SendMessageStream ==
    /\ LoopReady
    /\ Len(messages) <= MaxLen
    /\ \E text \in UserTexts :
          /\ messages' = add_message(messages, max_history, "user", text)
          /\ last_arg' = Message("user", text)
    /\ request' = [messages |-> messages', stream |-> TRUE]
    /\ last_op' = "send_message_stream"
    /\ before' = messages
    /\ pc' = "pull"
    /\ gen' = "created"
    /\ status' = 0
    /\ consumed' = <<>>
    /\ chunk' = <<>>
    /\ response_text' = <<>>
    /\ stdout' = <<>>
    /\ written' = <<>>
    /\ fragments' = <<>>
    /\ response' = NoResponse
    /\ UNCHANGED <<convVars, returned>>

\* The generator is exhausted: the for loop ends, lines 73-74.
finish_stream_uncommitted(msgs, mh, text) == msgs

finish_stream(msgs, mh, text) == add_message(msgs, mh, "assistant", text)

FinishStream ==
    /\ messages' = finish_stream(messages, max_history, response_text)
    /\ returned' = NoneValue
    /\ pc' = "idle"
    /\ gen' = "exhausted"

\* First pull: the body of _stream_generate starts, requests.post raises. The
\* exception leaves the generator, the for loop and send_message.
PostFails ==
    /\ pc = "pull" /\ gen = "created"
    /\ pc' = "raised"
    /\ gen' = "raised"
    /\ UNCHANGED <<convVars, messages, status, consumed, chunk, response_text, stdout, written,
                   fragments, returned, request, response, last_op, last_arg, before>>

\* First pull, status_code != 200: lines 133-136 (264-267).
PostError(statuses) ==
    /\ pc = "pull" /\ gen = "created"
    /\ \E s \in statuses, b \in Bodies :
          /\ status' = s
          /\ stdout' = Append(stdout, Printed(ApiFailedMsg(s, b)))
          /\ chunk' = ApiFailedMsg(s, b)
          /\ fragments' = Append(fragments, ApiFailedMsg(s, b))
    /\ gen' = "error_yielded"
    /\ pc' = "write"
    /\ UNCHANGED <<convVars, messages, consumed, response_text, written, returned, request,
                   response, last_op, last_arg, before>>

ReturnAfterError_falls_through ==
    /\ pc = "pull" /\ gen = "error_yielded"
    /\ gen' = "lines"
    /\ UNCHANGED <<convVars, messages, pc, status, consumed, chunk, response_text, stdout, written,
                   fragments, returned, request, response, last_op, last_arg, before>>

\* Resumed after the error fragment: line 137, return.
ReturnAfterError ==
    /\ pc = "pull" /\ gen = "error_yielded"
    /\ FinishStream
    /\ UNCHANGED <<convVars, status, consumed, chunk, response_text, stdout, written, fragments,
                   request, response, last_op, last_arg, before>>

\* First pull, status 200: the generator enters its loop over iter_lines().
PostOk ==
    /\ pc = "pull" /\ gen = "created"
    /\ status' = 200
    /\ gen' = "lines"
    /\ UNCHANGED <<convVars, messages, pc, consumed, chunk, response_text, stdout, written,
                   fragments, returned, request, response, last_op, last_arg, before>>

\* One pass of the loop body over the next line of the response.
NextLine(lines, bound) ==
    /\ pc = "pull" /\ gen = "lines"
    /\ Len(consumed) < bound
    /\ \E line \in lines :
          LET r == stream_line(family, line)
          IN  /\ consumed' = Append(consumed, line)
              /\ stdout' = IF r.act = "continue" /\ r.err # ""
                           THEN Append(stdout, Printed(ParseErrorMsg(r.err)))
                           ELSE stdout
              /\ CASE r.act = "continue" ->
                        /\ UNCHANGED <<messages, pc, gen, chunk, fragments, returned>>
                   [] r.act = "yield" ->
                        /\ chunk' = r.frag
                        /\ fragments' = Append(fragments, r.frag)
                        /\ pc' = "write"
                        /\ UNCHANGED <<messages, gen, returned>>
                   [] r.act = "break" ->
                        /\ FinishStream
                        /\ UNCHANGED <<chunk, fragments>>
                   [] r.act = "raise" ->
                        /\ pc' = "raised"
                        /\ gen' = "raised"
                        /\ UNCHANGED <<messages, chunk, fragments, returned>>
    /\ UNCHANGED <<convVars, status, response_text, written, request, response, last_op, last_arg,
                   before>>

\* iter_lines() is exhausted: the body of the response has ended.
EndOfBody ==
    /\ pc = "pull" /\ gen = "lines"
    /\ FinishStream
    /\ UNCHANGED <<convVars, status, consumed, chunk, response_text, stdout, written, fragments,
                   request, response, last_op, last_arg, before>>

\* Line 68-69.
write_chunk_buffered(out, c) == out

write_chunk(out, c) == Append(out, c)

WriteChunk ==
    /\ pc = "write"
    /\ stdout' = write_chunk(stdout, chunk)
    /\ written' = write_chunk(written, chunk)
    /\ pc' = "accumulate"
    /\ UNCHANGED <<convVars, messages, gen, status, consumed, chunk, response_text,
                   fragments, returned, request, response, last_op, last_arg, before>>

\* Line 70.
accumulate_last(text, c) == c

accumulate(text, c) == text \o c

Accumulate ==
    /\ pc = "accumulate"
    /\ response_text' = accumulate(response_text, chunk)
    /\ pc' = "pull"
    /\ UNCHANGED <<convVars, messages, gen, status, consumed, chunk, stdout, written,
                   fragments, returned, request, response, last_op, last_arg, before>>

\* SIGINT: signal_handler prints the farewell and calls sys.exit(0); SystemExit
\* unwinds whatever was running, and nothing of send_message runs after it.
Farewell == <<"\n", "bye">>

Interrupt_commits_partial ==
    /\ pc \in {"idle", "pull", "write", "accumulate"}
    /\ pc' = "exited"
    /\ stdout' = Append(stdout, Printed(Farewell))
    /\ messages' = IF pc = "idle" THEN messages
                   ELSE add_message(messages, max_history, "assistant", response_text)
    /\ UNCHANGED <<convVars, gen, status, consumed, chunk, response_text, written,
                   fragments, returned, request, response, last_op, last_arg, before>>

Interrupt ==
    /\ pc \in {"idle", "pull", "write", "accumulate"}
    /\ pc' = "exited"
    /\ stdout' = Append(stdout, Printed(Farewell))
    /\ UNCHANGED <<convVars, messages, gen, status, consumed, chunk, response_text, written,
                   fragments, returned, request, response, last_op, last_arg, before>>

\* ---------------------------------------------------------------- direct calls of the other methods
AddMessage ==
    /\ pc = "idle"
    /\ Len(messages) <= MaxLen
    /\ \E role \in Roles, content \in Contents :
          /\ messages' = add_message(messages, max_history, role, content)
          /\ last_arg' = Message(role, content)
    /\ last_op' = "add_message"
    /\ before' = messages
    /\ UNCHANGED <<convVars, pc, turnVars>>

SetSystemMessage(contents) ==
    /\ pc = "idle"
    /\ \E content \in contents :
          /\ messages' = set_system_message(messages, content)
          /\ last_arg' = Message("system", content)
    /\ last_op' = "set_system_message"
    /\ before' = messages
    /\ UNCHANGED <<convVars, pc, turnVars>>

ClearHistory ==
    /\ pc = "idle"
    /\ messages' = clear_history(messages)
    /\ last_op' = "clear_history"
    /\ last_arg' = NoArg
    /\ before' = messages
    /\ UNCHANGED <<convVars, pc, turnVars>>

\* ---------------------------------------------------------------- get_model_instance
Providers == {"openai", "OpenAI", "deepseek", "qwen", "llama"}

\* str.upper() and str.lower() on the provider names.
Upper(name) ==
    CASE name \in {"openai", "OpenAI"} -> "OPENAI"
      [] name = "deepseek" -> "DEEPSEEK"
      [] name = "qwen" -> "QWEN"
      [] OTHER -> "LLAMA"
Lower(name) ==
    CASE name \in {"openai", "OpenAI"} -> "openai"
      [] OTHER -> name

\* f"{model_name.upper()}_API_KEY"
EnvVarName(name) == <<Upper(name), "_API_KEY">>
EnvVars == {EnvVarName(n) : n \in Providers}

\* One entry of config["models"].
ModelConfig(key) == [api_key |-> key, model |-> "m"]
StoredKeys == {"", "sk-file"}
EnvValues == {"", "sk-env"}

\* Config.get_model_config: models.get(model_name, {}).
get_model_config(models, name) ==
    IF name \in DOMAIN models
    THEN [empty |-> FALSE, config |-> models[name]]
    ELSE [empty |-> TRUE, config |-> ModelConfig("")]

\* os.environ.get(name): None when the variable is not set.
environ_get_default(env, name) ==
    IF name \in DOMAIN env /\ env[name] # ""
    THEN [none |-> FALSE, value |-> env[name]]
    ELSE [none |-> FALSE, value |-> "sk-default"]

environ_get(env, name) ==
    IF name \in DOMAIN env
    THEN [none |-> FALSE, value |-> env[name]]
    ELSE [none |-> TRUE, value |-> ""]

\* The model classes; BaseModel.__init__ keeps config.get("api_key", "").
NoModel == [class |-> "None", api_key |-> ""]
Adapter_without_key(class, config) == [class |-> class, api_key |-> ""]
Adapter(class, config) == [class |-> class, api_key |-> config.api_key]

\* Lines 339-347.
dispatch_default(name, config) ==
    CASE Lower(name) = "deepseek" -> Adapter("DeepSeekModel", config)
      [] Lower(name) = "qwen" -> Adapter("QwenModel", config)
      [] OTHER -> Adapter("OpenAIModel", config)

dispatch(name, config) ==
    CASE Lower(name) = "openai" -> Adapter("OpenAIModel", config)
      [] Lower(name) = "deepseek" -> Adapter("DeepSeekModel", config)
      [] Lower(name) = "qwen" -> Adapter("QwenModel", config)
      [] OTHER -> NoModel

\* get_model_instance(model_name, config): the adapter returned, the stored
\* models afterwards (model_config is the stored dict itself, so line 330
\* writes into it), and the environment variables read.
get_model_instance(name, models, env) ==
    LET found == get_model_config(models, name)
        var == EnvVarName(name)
        api_key == environ_get(env, var)
    IN  IF found.empty
        THEN [model |-> NoModel, stored |-> models, reads |-> {}]
        ELSE IF found.config.api_key = ""
        THEN IF ~api_key.none /\ api_key.value # ""
             THEN [model |-> dispatch(name, [found.config EXCEPT !.api_key = api_key.value]),
                   stored |-> [models EXCEPT ![name].api_key = api_key.value],
                   reads |-> {var}]
             ELSE [model |-> NoModel, stored |-> models, reads |-> {var}]
        ELSE [model |-> dispatch(name, found.config), stored |-> models, reads |-> {}]

NoHeader == <<>>
\* "Authorization": f"Bearer {self.api_key}"
bearer(key) == <<"Bearer ", key>>

GetModelInstance ==
    /\ pc = "idle"
    /\ \E name \in Providers :
          LET r == get_model_instance(name, stored, environ)
          IN  /\ provider' = name
              /\ model' = r.model
              /\ stored' = r.stored
              /\ env_reads' = r.reads
    /\ stored0' = stored
    /\ authorization' = NoHeader
    /\ UNCHANGED <<max_history, family, environ, configured, messages, pc, turnVars, last_op,
                   last_arg, before>>

\* The returned adapter builds the headers of a request (lines 90-93, 217-220).
BuildHeaders ==
    /\ pc = "idle"
    /\ model.class # "None"
    /\ authorization' = bearer(model.api_key)
    /\ UNCHANGED <<max_history, family, stored, stored0, environ, provider, model, env_reads,
                   configured, messages, pc, turnVars, last_op, last_arg, before>>

\* No configuration loaded, no adapter resolved.
NoFactory ==
    /\ stored = [n \in {} |-> ModelConfig("")]
    /\ stored0 = stored
    /\ environ = [v \in {} |-> ""]
    /\ provider = ""
    /\ model = NoModel
    /\ env_reads = {}
    /\ authorization = NoHeader
    /\ configured = DefaultConfigMaxHistory

\* ---------------------------------------------------------------- specifications
\* Conversation(model, max_history): lines 25-27.
InitConversation ==
    /\ max_history \in 1..MaxHistory
    /\ family \in Families
    /\ messages = <<>>
    /\ pc = "idle"
    /\ gen = "none"
    /\ status = 0
    /\ consumed = <<>>
    /\ chunk = <<>>
    /\ response_text = <<>>
    /\ stdout = <<>>
    /\ fragments = <<>>
    /\ returned = NoneValue
    /\ request = NoRequest
    /\ last_op = "init"
    /\ last_arg = NoArg
    /\ before = <<>>
    /\ written = <<>>
    /\ response = NoResponse
    /\ NoFactory

\* The history methods called directly, in any order.
NextHistory == AddMessage \/ SetSystemMessage(Contents) \/ ClearHistory

SpecHistory == InitConversation /\ [][NextHistory]_vars

\* Turns of send_message, with the system message set or the history cleared
\* between turns.
TurnLine == NextLine(TurnLines(family), MaxTurnLines)

Next ==
    \/ SendMessageNonStream
    \/ SendMessageStream
    \/ PostFails
    \/ PostError(TurnStatuses)
    \/ ReturnAfterError
    \/ PostOk
    \/ TurnLine
    \/ EndOfBody
    \/ WriteChunk
    \/ Accumulate
    \/ SetSystemMessage(SystemPrompts)
    \/ ClearHistory
    \/ Interrupt

Spec == InitConversation /\ [][Next]_vars

\* One streaming turn on a fresh conversation, over every kind of line.
InitStream ==
    /\ InitConversation
    /\ max_history = MaxHistory

StreamLine == NextLine(StreamLines, MaxLines)

NextStream ==
    \/ (messages = <<>> /\ SendMessageStream)
    \/ PostFails
    \/ PostError(StreamStatuses)
    \/ ReturnAfterError
    \/ PostOk
    \/ StreamLine
    \/ EndOfBody
    \/ WriteChunk
    \/ Accumulate

SpecStream == InitStream /\ [][NextStream]_vars

\* send_message and the generator run on without waiting for anything but the
\* response: whenever a step of the turn is possible, one is taken.
SpecStreamFair == SpecStream /\ WF_vars(NextStream)

\* get_model_instance on any stored configuration and environment, and the
\* requests of the adapter it returns.
StoredConfigs ==
    UNION {[D -> {ModelConfig(k) : k \in StoredKeys}] :
              D \in {E \in SUBSET Providers : Cardinality(E) <= MaxEntries}}
Environments == UNION {[D -> EnvValues] : D \in SUBSET EnvVars}

InitFactory ==
    /\ max_history = DefaultMaxHistory
    /\ family = "openai"
    /\ messages = <<>>
    /\ pc = "idle"
    /\ gen = "none"
    /\ status = 0
    /\ consumed = <<>>
    /\ chunk = <<>>
    /\ response_text = <<>>
    /\ stdout = <<>>
    /\ written = <<>>
    /\ fragments = <<>>
    /\ returned = NoneValue
    /\ request = NoRequest
    /\ last_op = "init"
    /\ last_arg = NoArg
    /\ before = <<>>
    /\ stored \in StoredConfigs
    /\ stored0 = stored
    /\ environ \in Environments
    /\ provider = ""
    /\ model = NoModel
    /\ env_reads = {}
    /\ authorization = NoHeader
    /\ configured = DefaultConfigMaxHistory
    /\ response = NoResponse

NextFactory == GetModelInstance \/ BuildHeaders

SpecFactory == InitFactory /\ [][NextFactory]_vars

\* Non-streaming turns over every shape of reply body either adapter
\* distinguishes.
ReplyBodies ==
    {NoJson, ScalarJson, EmptyObject, NoChoices, OneChoice,
     [OneChoice EXCEPT !.message = TRUE], [EmptyObject EXCEPT !.output = TRUE]}
        \cup {MessageJson(c) : c \in Replies \cup {<<>>}}
        \cup {OutputJson(c) : c \in Replies \cup {<<>>}}
ReplyResponses ==
    {Response(TRUE, 0, <<>>, NoJson)}
        \cup {Response(FALSE, s, b, NoJson) : s \in StreamStatuses, b \in Bodies}
        \cup {Response(FALSE, 200, <<>>, j) : j \in ReplyBodies}

NextReply == SendNonStream(ReplyResponses) \/ ClearHistory

SpecReply == InitConversation /\ [][NextReply]_vars

\* ---------------------------------------------------------------- main
\* The adapter family of a model class (DeepSeekModel extends OpenAIModel).
FamilyOf(class) == IF class = "QwenModel" THEN "qwen" ELSE "openai"

\* f"错误：无法加载模型 '{model_name}'"
LoadFailedMsg(name) == <<"cannot load model ", name>>

\* main, lines 122-130: resolve the adapter; without one, print the error and
\* exit(1); otherwise build the conversation with Conversation(model), that is
\* with the default max_history of Conversation.__init__.
Main ==
    /\ pc = "start"
    /\ \E name \in Providers :
          LET r == get_model_instance(name, stored, environ)
          IN  /\ provider' = name
              /\ model' = r.model
              /\ stored' = r.stored
              /\ env_reads' = r.reads
              /\ IF r.model = NoModel
                 THEN /\ stdout' = Append(stdout, Printed(LoadFailedMsg(name)))
                      /\ pc' = "exited"
                      /\ UNCHANGED <<max_history, family>>
                 ELSE /\ max_history' = DefaultMaxHistory
                      /\ family' = FamilyOf(r.model.class)
                      /\ pc' = "idle"
                      /\ UNCHANGED stdout
    /\ stored0' = stored
    /\ messages' = <<>>
    /\ UNCHANGED <<environ, authorization, configured, gen, status, consumed, chunk,
                   response_text, written, fragments, returned, request, response, last_op,
                   last_arg, before>>

\* Stored models that all hold a key (main then needs no environment).
MainConfigs == {c \in StoredConfigs : \A n \in DOMAIN c : c[n].api_key # ""}

\* main before line 122: the configuration record is loaded, with any
\* max_history; no Conversation object exists yet (max_history = 0).
InitMain ==
    /\ configured \in 1..MaxHistory
    /\ stored \in MainConfigs
    /\ stored0 = stored
    /\ environ = [v \in {} |-> ""]
    /\ provider = ""
    /\ model = NoModel
    /\ env_reads = {}
    /\ authorization = NoHeader
    /\ max_history = 0
    /\ family = "openai"
    /\ messages = <<>>
    /\ pc = "start"
    /\ gen = "none"
    /\ status = 0
    /\ consumed = <<>>
    /\ chunk = <<>>
    /\ response_text = <<>>
    /\ stdout = <<>>
    /\ written = <<>>
    /\ fragments = <<>>
    /\ returned = NoneValue
    /\ request = NoRequest
    /\ response = NoResponse
    /\ last_op = "init"
    /\ last_arg = NoArg
    /\ before = <<>>

\* main: the conversation is built, then the loop sends turns.
NextMain ==
    \/ Main
    \/ SendMessageNonStream
    \/ SendMessageStream
    \/ PostFails
    \/ PostError(TurnStatuses)
    \/ ReturnAfterError
    \/ PostOk
    \/ TurnLine
    \/ EndOfBody
    \/ WriteChunk
    \/ Accumulate

SpecMain == InitMain /\ [][NextMain]_vars

\* ================================================================ properties
RECURSIVE Concat(_)
Concat(texts) == IF texts = <<>> THEN <<>> ELSE Head(texts) \o Concat(Tail(texts))

Last(s) == s[Len(s)]
Tokens(text) == {text[i] : i \in 1..Len(text)}
EndsWith(text, tail) ==
    /\ Len(tail) <= Len(text)
    /\ SubSeq(text, Len(text) - Len(tail) + 1, Len(text)) = tail

HeadIsSystem(msgs) == msgs # <<>> /\ msgs[1].role = "system"

\* C1: after every add_message call on a history within the bound,
\* len(messages) <= max_history.
C1_BoundedHistory ==
    (last_op = "add_message" /\ Len(before) <= max_history)
        => Len(messages) <= max_history

\* C2: a system message at index 0 is still at index 0, unchanged, after
\* add_message, whatever it evicts.
C2_SystemPinning ==
    (last_op = "add_message" /\ HeadIsSystem(before))
        => (messages # <<>> /\ messages[1] = before[1])

C2_Witness ==
    /\ last_op = "add_message"
    /\ HeadIsSystem(before)
    /\ max_history >= 2
    /\ Len(before) = max_history
    /\ Len(messages) = max_history
    /\ messages[1] = before[1]
    /\ messages[2] # before[2]

\* C3: after set_system_message on a history within the bound,
\* len(messages) <= max_history.
C3_SetSystemKeepsBound ==
    (last_op = "set_system_message" /\ Len(before) <= max_history)
        => Len(messages) <= max_history

\* C4: clear_history leaves [] when index 0 was not a system message (or the
\* history was empty), and exactly the unchanged system message otherwise.
C4_ClearPreservesSystem ==
    last_op = "clear_history"
        => IF HeadIsSystem(before)
           THEN Len(messages) = 1 /\ messages[1] = before[1]
           ELSE Len(messages) = 0

C4_Witness ==
    /\ last_op = "clear_history"
    /\ Len(before) >= 3
    /\ HeadIsSystem(before)
    /\ messages = <<before[1]>>

\* C5: a failure of the HTTP call itself never leaves send_message as an
\* exception, in either mode.
C5_TransportErrorNotThrown ==
    ~(pc = "raised" /\ status = 0)

IsErrorText(text) ==
    /\ text # <<>>
    /\ text[1] \in {"API request failed: ", "OpenAI API request failed: ",
                    "Qwen API request failed: ", "parse error: "}

TurnEnded == last_op \in {"send_message", "send_message_stream"} /\ pc \in {"idle", "raised"}

\* C6: when a send_message call whose request failed (transport error or
\* status outside 2xx) ends, the last message of the history is an assistant
\* message holding the error text, right after the user message (unless
\* eviction left only the pinned system message in front of it).
C6_FailedTurnRecorded ==
    (TurnEnded /\ status \notin 200..299)
        => /\ messages # <<>>
           /\ Last(messages).role = "assistant"
           /\ IsErrorText(Last(messages).content)
           /\ ((Len(messages) >= 2 /\ messages[Len(messages) - 1].role # "system")
                  => messages[Len(messages) - 1] = last_arg)

\* C7: a streaming turn that yielded fragments f1..fn ends with the history a
\* non-streaming turn replying f1+...+fn ends with, from the same history and
\* user text; its last message is the one assistant message holding f1+...+fn.
C7_StreamEquivalence ==
    (last_op = "send_message_stream" /\ pc = "idle")
        => /\ messages = send_message_non_stream(before, max_history, last_arg.content,
                                                 Concat(fragments))
           /\ Last(messages) = Message("assistant", Concat(fragments))

C7_Witness ==
    /\ last_op = "send_message_stream"
    /\ pc = "idle"
    /\ status = 200
    /\ Len(fragments) = 2
    /\ fragments[1] # fragments[2]
    /\ before # <<>>
    /\ Last(messages).content = fragments[1] \o fragments[2]

\* The line is a JSON document in the framing of the family.
IsJsonLine(fam, line) ==
    /\ line.raw = "text"
    /\ ~line.done
    /\ line.json.kind # "invalid"
    /\ fam = "qwen" => ~line.prefix

\* The reply field of a JSON line: choices[0].delta.content / output.text.
ReplyField(fam, line) ==
    IF fam = "openai"
    THEN IF line.json.has_choices /\ line.json.n_choices > 0 /\ line.json.delta
            /\ line.json.has_content
         THEN line.json.content ELSE <<>>
    ELSE IF line.json.output /\ line.json.has_text THEN line.json.text ELSE <<>>

IsSentinel(line) == line.raw = "text" /\ line.prefix /\ line.done

RECURSIVE ValidFragments(_, _)
ValidFragments(fam, lines) ==
    IF lines = <<>> THEN <<>>
    ELSE IF fam = "openai" /\ Head(lines).raw = "text" /\ Head(lines).done THEN <<>>
    ELSE IF IsJsonLine(fam, Head(lines)) /\ ReplyField(fam, Head(lines)) # <<>>
         THEN <<ReplyField(fam, Head(lines))>> \o ValidFragments(fam, Tail(lines))
         ELSE ValidFragments(fam, Tail(lines))

\* C8: on a 200 stream, lines that are not valid JSON never abort the fragment
\* stream, and the fragments yielded are those of the valid lines, in order.
C8_MalformedLineTolerance ==
    status = 200
        => /\ gen # "raised"
           /\ fragments = ValidFragments(family, consumed)

\* C9: in an OpenAI-compatible stream the line `data: [DONE]` is the last line
\* ever read: it yields nothing and the stream is exhausted there.
C9_SentinelTermination ==
    family = "openai"
        => \A i \in 1..Len(consumed) :
              IsSentinel(consumed[i])
                  => /\ i = Len(consumed)
                     /\ gen = "exhausted"
                     /\ fragments = ValidFragments(family, SubSeq(consumed, 1, i - 1))
                     /\ Last(messages).content = Concat(fragments)

C9_Witness ==
    /\ family = "openai"
    /\ Len(consumed) = 2
    /\ IsSentinel(consumed[2])
    /\ Len(fragments) = 1
    /\ gen = "exhausted"
    /\ pc = "idle"

\* C10: on a status outside 2xx the stream yields exactly one fragment, which
\* holds the status code and the body, then ends without raising; no line of
\* the response is read.
C10_ProtocolErrorStream ==
    (last_op = "send_message_stream" /\ status # 0 /\ status \notin 200..299)
        => /\ Len(fragments) = 1
           /\ StatusText(status) \in Tokens(fragments[1])
           /\ \E b \in Bodies : EndsWith(fragments[1], b)
           /\ consumed = <<>>
           /\ gen \in {"error_yielded", "exhausted"}
           /\ pc # "raised"

C10_Witness ==
    /\ last_op = "send_message_stream"
    /\ status = 404
    /\ pc = "idle"
    /\ gen = "exhausted"
    /\ Len(fragments) = 1
    /\ Last(messages).content = fragments[1]

StreamingTurn == last_op = "send_message_stream"
\* What sys.stdout received from anything but print (print ends in a newline).
WithoutPrints(out) == SelectSeq(out, LAMBDA t : t = <<>> \/ Last(t) # "\n")
IsPrefix(s, t) == Len(s) <= Len(t) /\ SubSeq(t, 1, Len(s)) = s

\* C11: in a streaming turn the assistant message is added only once the
\* fragment stream is exhausted, and then holds the whole accumulator; a turn
\* interrupted before that leaves the history as it was sent (no assistant
\* message) and leaves every fragment already written on the sink.
C11_CommitOnlyAfterExhaustion ==
    StreamingTurn
        => /\ gen # "exhausted"
                => /\ messages = request.messages
                   /\ Last(messages) = last_arg
           /\ gen = "exhausted"
                => Last(messages) = Message("assistant", Concat(fragments))
           /\ pc = "exited"
                => /\ IsPrefix(written, fragments)
                   /\ WithoutPrints(stdout) = written

C11_Witness ==
    /\ StreamingTurn
    /\ pc = "exited"
    /\ gen = "lines"
    /\ Len(written) = 1
    /\ response_text # <<>>
    /\ Len(fragments) = 2
    /\ messages = request.messages

\* C12: whenever send_message requests the next fragment, every fragment
\* yielded so far has been written, in arrival order, and the text written
\* equals the accumulator; while one fragment is being handled it is the only
\* one not yet written or accumulated.
C12_NoBuffering ==
    StreamingTurn
        => /\ pc = "pull" => (written = fragments /\ Concat(written) = response_text)
           /\ pc = "write" => (Append(written, chunk) = fragments
                               /\ Concat(written) = response_text)
           /\ pc = "accumulate" => (written = fragments
                                    /\ Concat(written) = response_text \o chunk)

C12_Witness ==
    /\ StreamingTurn
    /\ pc = "pull"
    /\ gen = "lines"
    /\ Len(written) = 2
    /\ written[1] # written[2]
    /\ response_text = written[1] \o written[2]

NonSystem(msgs) == SelectSeq(msgs, LAMBDA m : m.role # "system")
Alternates(msgs) == \A i \in 1..(Len(msgs) - 1) : msgs[i].role # msgs[i + 1].role

\* C13 as stated: between completed send_message calls the non-system messages
\* are whole exchanges: user, assistant, user, assistant, ...
C13_CompletedExchangesOnly ==
    pc = "idle"
        => LET ns == NonSystem(messages)
           IN  /\ Len(ns) % 2 = 0
               /\ \A i \in 1..Len(ns) :
                     ns[i].role = (IF i % 2 = 1 THEN "user" ELSE "assistant")

\* C13 (amended): between completed send_message calls the non-system
\* messages alternate between user and assistant and end with an assistant
\* message, so every user message kept is followed by its reply; the oldest
\* kept message may be a reply whose user message was evicted.
C13_AlternatingEndingWithReply ==
    pc = "idle"
        => LET ns == NonSystem(messages)
           IN  /\ \A i \in 1..Len(ns) : ns[i].role \in {"user", "assistant"}
               /\ Alternates(ns)
               /\ ns # <<>> => Last(ns).role = "assistant"

C13_Witness ==
    /\ pc = "idle"
    /\ last_op \in {"send_message", "send_message_stream"}
    /\ Len(NonSystem(messages)) = 3
    /\ NonSystem(messages)[1].role = "assistant"
    /\ HeadIsSystem(messages)

\* C14: the message list handed to generate by send_message(text) is never
\* empty and ends with the user message {role: user, content: text}.
C14_RequestEndsWithUserMessage ==
    last_op \in {"send_message", "send_message_stream"}
        => /\ request.messages # <<>>
           /\ Last(request.messages) = last_arg
           /\ last_arg.role = "user"
           /\ last_arg.content \in UserTexts

C14_Witness ==
    /\ StreamingTurn
    /\ pc = "pull"
    /\ HeadIsSystem(before)
    /\ Len(before) >= max_history
    /\ Len(request.messages) < Len(before) + 1
    /\ Last(request.messages) = last_arg

Called == provider # ""
HadEntry == provider \in DOMAIN stored0
\* The value of the provider's environment variable ("" when it is not set).
EnvIsSet == EnvVarName(provider) \in DOMAIN environ
EnvValue == IF EnvIsSet THEN environ[EnvVarName(provider)] ELSE ""

\* C15: when the stored entry of the provider has an empty api_key and the
\* environment variable is unset or empty, get_model_instance returns None,
\* and no request is ever built from it.
C15_MissingCredential ==
    (Called /\ HadEntry /\ stored0[provider].api_key = "" /\ EnvValue = "")
        => /\ model = NoModel
           /\ authorization = NoHeader

C15_Witness ==
    /\ provider = "qwen"
    /\ HadEntry
    /\ stored0[provider].api_key = ""
    /\ EnvIsSet
    /\ EnvValue = ""
    /\ model = NoModel

\* C16: the key in the Authorization header of the returned adapter is the
\* stored api_key when that is not empty, and the environment variable's
\* value otherwise; the environment is read only when the stored key is empty.
C16_KeySelection ==
    /\ (Called /\ authorization # NoHeader)
          => /\ HadEntry
             /\ authorization =
                   <<"Bearer ", IF stored0[provider].api_key # ""
                                THEN stored0[provider].api_key
                                ELSE EnvValue>>
             /\ authorization[2] # ""
    /\ (Called /\ env_reads # {})
          => /\ HadEntry
             /\ stored0[provider].api_key = ""
             /\ env_reads = {EnvVarName(provider)}

C16_Witness ==
    /\ provider = "OpenAI"
    /\ HadEntry
    /\ stored0[provider].api_key = ""
    /\ env_reads = {<<"OPENAI", "_API_KEY">>}
    /\ model.class = "OpenAIModel"
    /\ authorization = <<"Bearer ", "sk-env">>

\* C17: get_model_instance returns None when the provider has no stored
\* entry, and when it has one with a usable key but its name, lowercased, is
\* none of openai, deepseek, qwen.
C17_UnknownProvider ==
    (Called /\ (~HadEntry \/ Lower(provider) \notin {"openai", "deepseek", "qwen"}))
        => /\ model = NoModel
           /\ authorization = NoHeader

C17_Witness ==
    /\ provider = "llama"
    /\ HadEntry
    /\ stored0[provider].api_key = "sk-file"
    /\ model = NoModel

\* C18: get_model_instance leaves the stored configuration as it was.
C18_ConfigurationUnchanged ==
    Called => stored = stored0

\* C19: a send_message call starts only when the turn before it has appended
\* its assistant reply, and whenever no call is running the last turn is
\* answered: no two requests of one conversation are ever outstanding.
C19_SingleOutstandingRequest ==
    last_op \in {"send_message", "send_message_stream"}
        => /\ before # <<>> => Last(before).role # "user"
           /\ pc = "idle" => Last(messages).role = "assistant"
           /\ pc \in {"pull", "write", "accumulate"}
                => (gen \in {"created", "lines", "error_yielded"}
                    /\ Last(messages).role = "user")

C19_Witness ==
    /\ StreamingTurn
    /\ pc = "pull"
    /\ gen = "created"
    /\ Len(before) >= 2
    /\ Last(before).role = "assistant"
    /\ before[Len(before) - 1].role = "user"

\* The last k entries of s (none for k = 0).
Suffix(s, k) == IF k >= Len(s) THEN s ELSE SubSeq(s, Len(s) - k + 1, Len(s))

\* C20: add_message on history H leaves the longest suffix of H ++ [new] that
\* fits, preceded by H[0] when that is a system message; the new message is
\* last and no message appears twice.
C20_EvictsOldestOnly ==
    last_op = "add_message"
        => LET all == Append(before, last_arg)
           IN  /\ messages =
                     (IF Len(all) <= max_history THEN all
                      ELSE IF HeadIsSystem(before)
                           THEN <<before[1]>> \o Suffix(all, max_history - 1)
                           ELSE Suffix(all, max_history))
               /\ Last(messages) = last_arg
               /\ \A i \in 1..Len(messages) : messages[i].ref = "own"

\* Equal as dicts: the same role and content.
SameMessage(a, b) == a.role = b.role /\ a.content = b.content

\* C21: set_system_message(content) leaves messages[0] = {role: system,
\* content: content}; when index 0 was a system message the length and every
\* message at index >= 1 are as before, otherwise the history before follows
\* the new head; a second call only replaces the content the first one set.
C21_SetSystemMessage ==
    last_op = "set_system_message"
        => /\ messages # <<>>
           /\ SameMessage(messages[1], last_arg)
           /\ IF HeadIsSystem(before)
              THEN /\ Len(messages) = Len(before)
                   /\ \A i \in 2..Len(messages) : SameMessage(messages[i], before[i])
              ELSE Tail(messages) = before
           /\ \A b \in Contents :
                 set_system_message(messages, b) = set_system_message(before, b)

\* A Conversation object exists (main is past line 130).
ConversationBuilt == pc \in {"idle", "pull", "write", "accumulate", "raised"}

\* C22: the conversation main builds keeps the history within the max_history
\* of the configuration record.
C22_ConfiguredBoundEnforced ==
    ConversationBuilt => Len(messages) <= configured

\* How many of the texts written to out are text.
Occurrences(out, text) == Cardinality({i \in 1..Len(out) : out[i] = text \/ out[i] = Printed(text)})

\* C23: during a streaming turn sys.stdout holds exactly the fragments yielded
\* and forwarded so far, and at its end their concatenation, the content of the
\* assistant message; so a skipped line has written nothing, and the error
\* description of a status outside 2xx is there once.
C23_OutputIsFragments ==
    StreamingTurn
        => /\ stdout = written
           /\ pc = "idle" => Concat(stdout) = Last(messages).content
           /\ (pc = "idle" /\ status # 0 /\ status \notin 200..299)
                 => Occurrences(stdout, fragments[1]) = 1

\* The body is a JSON object without the reply field of the family:
\* choices[0].message.content, or output.text.
LacksReplyField(fam, json) ==
    /\ json.kind = "object"
    /\ IF fam = "openai"
       THEN ~(json.has_choices /\ json.n_choices > 0 /\ json.message /\ json.has_content)
       ELSE ~(json.output /\ json.has_text)

NonStreamingTurn == last_op = "send_message"

\* C24: a non-streamed status-200 response whose body is a JSON object
\* lacking the reply field makes generate(stream=False) return "".
C24_MissingFieldYieldsEmpty ==
    (NonStreamingTurn /\ ~response.failed /\ response.status = 200
        /\ LacksReplyField(family, response.json))
        => returned = StrValue(<<>>)

\* How many of the lines are not blank / carry a non-empty reply field.
NonBlank(lines) == Cardinality({i \in 1..Len(lines) : lines[i].raw # "blank"})
WithReply(fam, lines) ==
    Cardinality({i \in 1..Len(lines) : ReplyField(fam, lines[i]) # <<>>})

\* C25: on a status-200 stream every fragment yielded is a non-empty text, a
\* line whose reply field is absent or empty yields none, and there are never
\* more fragments than non-blank lines read.
C25_NoEmptyFragments ==
    (StreamingTurn /\ status = 200)
        => /\ \A i \in 1..Len(fragments) : fragments[i] # <<>>
           /\ Len(fragments) <= WithReply(family, consumed)
           /\ Len(fragments) <= NonBlank(consumed)
           /\ pc = "write" => (chunk # <<>> /\ chunk = ReplyField(family, Last(consumed)))

C25_Witness ==
    /\ StreamingTurn
    /\ status = 200
    /\ family = "qwen"
    /\ Len(consumed) = 3
    /\ consumed[1] = BareLine(OutputJson(<<>>))
    /\ consumed[2] = BareLine([EmptyObject EXCEPT !.output = TRUE])
    /\ fragments = <<ReplyField(family, consumed[3])>>
    /\ gen = "exhausted"

\* C26: send_message(stream=False) returns the string generate returned, and
\* when it returns that string is the content of the last message of the
\* history, an assistant message; send_message(stream=True) returns None.
C26_ReturnsTheReply ==
    /\ NonStreamingTurn
          => /\ returned = StrValue(generate_non_stream(family, response))
             /\ Last(messages) = Message("assistant", returned.text)
    /\ (StreamingTurn /\ pc = "idle") => returned = NoneValue

C26_Witness ==
    /\ NonStreamingTurn
    /\ pc = "idle"
    /\ response.status = 200
    /\ returned = StrValue(<<"Hel", "lo">>)
    /\ Len(before) = max_history
    /\ HeadIsSystem(before)
    /\ Last(messages).content = <<"Hel", "lo">>

\* C27: a streaming turn that received a response eventually exhausts the
\* fragment stream and has then appended exactly one message, the assistant
\* message holding the accumulated fragments.
C27_EveryTurnCompletes ==
    (StreamingTurn /\ status # 0)
        ~> (/\ pc = "idle"
            /\ gen = "exhausted"
            /\ messages = Append(request.messages, Message("assistant", Concat(fragments))))

====
